---------------------------- MODULE Spec2Model ----------------------------
(***************************************************************************)
(* CHIRPS rainfall downloader: the raster-to-table transformer             *)
(* (get_chirps_data / get_chirps_data_daily), its memoisation, and the     *)
(* "Proses Data" batch loop of the three product pages                     *)
(* (chirps_monthly.py, chirps_daily_era5.py, chirps_daily_imerg.py).       *)
(*                                                                         *)
(* Coordinates are integers in units of a twelfth of the raster extent,    *)
(* so that every linspace sample of up to five points is exact; rainfall   *)
(* values are integers; a float cell is a record [nan, v] so that NaN is   *)
(* a value of its own and never equal to a number.  Strings built by       *)
(* f-strings / strftime are tuples of character codes, so that sorted()    *)
(* is the lexicographic order Python applies to them.                      *)
(***************************************************************************)
EXTENDS Integers, Sequences, FiniteSets, TLC

VARIABLES
    variant,        \* which page runs: "monthly" | "era5" | "imerg"
    chirps_data,    \* st.session_state.chirps_data: a dict, in insertion order
    data_processed, \* st.session_state.data_processed (monthly, imerg)
    show_map,       \* st.session_state.show_map (monthly, imerg)
    cache,          \* the entries st.cache_data keeps for the transformer
    now,            \* the clock at the latest run of "Proses Data", in seconds
    pc,             \* "idle": between script runs; "loop": in the while loop
    start_date,     \* start of the range of the running request
    end_date,       \* end of the range of the running request
    lat_lon,        \* lat_min, lat_max, lon_min, lon_max of the running request
    current_date,   \* the loop variable
    msg,            \* what the last script run showed: st.error/success/warning
    download,       \* what the last download handler built
    map_view,       \* what the last script run drew as the map
    callLog,        \* history: the transformer calls of the latest accepted request
    lastReq,        \* history: the latest click on "Proses Data"
    reqCalls,       \* history: transformer calls since that click
    computed,       \* history: per key, the latest uncached computation
    requests,       \* history: number of clicks on "Proses Data"
    tFetch,     \* transformer harness: what requests.get / rasterio.open deliver
    tDate,      \* transformer harness: the date argument
    tBox,       \* transformer harness: the bounding-box arguments
    tRaw,       \* transformer harness: local df before dropna (lines 87-91)
    tOut,       \* transformer harness: the value returned
    tpc         \* transformer harness: "ready" | "done"

tvars == <<tFetch, tDate, tBox, tRaw, tOut, tpc>>

session == <<chirps_data, data_processed, show_map>>

loopvars == <<pc, start_date, end_date, lat_lon, current_date>>

history == <<callLog, lastReq, reqCalls, computed, requests>>

vars == <<variant, session, cache, now, loopvars, msg, download, map_view, history, tvars>>

-----------------------------------------------------------------------------
(* Bounds of the model *)

\* Largest number of cells (height * width) of a decoded raster.
MaxCells == 4

\* Largest number of clicks on "Proses Data" in a behaviour.
MaxRequests == 2

-----------------------------------------------------------------------------
(* Float cells *)

Num(x) == [nan |-> FALSE, v |-> x]

\* np.nan
NaNCell == [nan |-> TRUE, v |-> 0]

\* The no-data marker of the CHIRPS GeoTIFFs, -9999.0.
SentinelValue == -9999

\* IEEE comparison band_data == -9999.0 : NaN compares unequal to everything.
IsSentinel(cell) == ~cell.nan /\ cell.v = SentinelValue

\* Values a raster cell may hold: no-data, NaN, no rain, some rain.
CellValues == {Num(SentinelValue), NaNCell, Num(0), Num(5)}

-----------------------------------------------------------------------------
(* The transformer *)

\* np.linspace(a, b, n): n samples start + i*step with step = (b-a)/(n-1);
\* for n > 1 the last sample is set to b; for n = 1 the one sample is a.
Linspace(a, b, n) ==
    [i \in 1..n |->
        IF n = 1 THEN a
        ELSE IF i = n THEN b
        ELSE a + ((i - 1) * (b - a)) \div (n - 1)]

Height(band) == Len(band)
Width(band) == Len(band[1])

\* Fault: the band is used as read, the sentinel left in place.
MaskSentinelSkipped(band) == band

\* band_data = np.where(band_data == -9999.0, np.nan, band_data)

MaskSentinel(band) ==
    [r \in 1..Height(band) |->
        [c \in 1..Width(band) |->
            IF IsSentinel(band[r][c]) THEN NaNCell ELSE band[r][c]]]

\* Fault: the latitude axis runs from bottom to top.
LatCoordsFlipped(src) == Linspace(src.bounds.bottom, src.bounds.top, Height(src.band))

\* lat_coords = np.linspace(src.bounds.top, src.bounds.bottom, height)
LatCoords(src) == Linspace(src.bounds.top, src.bounds.bottom, Height(src.band))

\* lon_coords = np.linspace(src.bounds.left, src.bounds.right, width)
LonCoords(src) == Linspace(src.bounds.left, src.bounds.right, Width(src.band))

\* df = pd.DataFrame({"Latitude": lat.flatten(), "Longitude": lon.flatten(),
\*                    "Value": band_data.flatten()})
\* with lon, lat = np.meshgrid(lon_coords, lat_coords): row-major, lat varies
\* with the row and lon with the column.
RawRows(src) ==
    LET band == MaskSentinel(src.band)
        h == Height(src.band)
        w == Width(src.band)
        lat == LatCoords(src)
        lon == LonCoords(src)
    IN  [k \in 1..(h * w) |->
            LET r == ((k - 1) \div w) + 1
                c == ((k - 1) % w) + 1
            IN  [Latitude |-> lat[r], Longitude |-> lon[c], Value |-> band[r][c]]]

\* df.dropna(inplace=True)
DropNa(rows) == SelectSeq(rows, LAMBDA row : ~row.Value.nan)

\* Fault: the box edges are excluded.
InBoxStrict(row, box) ==
    /\ row.Latitude > box.lat_min /\ row.Latitude < box.lat_max
    /\ row.Longitude > box.lon_min /\ row.Longitude < box.lon_max

\* The boolean mask of df[...]: bounds inclusive on both axes.
InBox(row, box) ==
    /\ row.Latitude >= box.lat_min /\ row.Latitude <= box.lat_max
    /\ row.Longitude >= box.lon_min /\ row.Longitude <= box.lon_max

FilterBox(rows, box) == SelectSeq(rows, LAMBDA row : InBox(row, box))

\* Column labels of the frame returned on success.
DataColumns == <<"Latitude", "Longitude", "Value", "Date_Range">>

\* pd.DataFrame(): no columns, no rows.
EmptyFrame == [columns |-> <<>>, rows |-> <<>>]

\* df.empty
IsEmpty(df) == Len(df.rows) = 0 \/ Len(df.columns) = 0

-----------------------------------------------------------------------------
(* Dates and their labels *)

Variants == {"monthly", "era5", "imerg"}

\* A date is <<year, month, day>>; datetime comparison is lexicographic.
DateLT(a, b) ==
    \/ a[1] < b[1]
    \/ a[1] = b[1] /\ a[2] < b[2]
    \/ a[1] = b[1] /\ a[2] = b[2] /\ a[3] < b[3]

DateLE(a, b) == a = b \/ DateLT(a, b)

\* The character code of a decimal digit.
Chr(d) == 48 + d

\* str(n) of a non-negative integer, as in f"{year}" and strftime('%Y').
RECURSIVE DecStr(_)
DecStr(n) == IF n < 10 THEN <<Chr(n)>> ELSE DecStr(n \div 10) \o <<Chr(n % 10)>>

\* f"{n:02d}" and strftime('%m'), strftime('%d') for 1 <= n <= 99.
Pad2(n) == <<Chr(n \div 10), Chr(n % 10)>>

\* f"{year}-{month}" (monthly page) and date.strftime('%Y-%m-%d') (daily
\* pages); 45 is the code of "-".
DateLabel(v, date) ==
    IF v = "monthly"
    THEN DecStr(date[1]) \o <<45>> \o Pad2(date[2])
    ELSE DecStr(date[1]) \o <<45>> \o Pad2(date[2]) \o <<45>> \o Pad2(date[3])

-----------------------------------------------------------------------------
(* get_chirps_data / get_chirps_data_daily *)

\* df_filtered['Date_Range'] = label
AttachLabel(rows, label) ==
    [k \in 1..Len(rows) |->
        [Latitude |-> rows[k].Latitude, Longitude |-> rows[k].Longitude,
         Value |-> rows[k].Value, Date_Range |-> label]]

\* The body of the with-block: decode, mask, grid, dropna, filter, label.
TransformRaster(v, date, src, box) ==
    [columns |-> DataColumns,
     rows |-> AttachLabel(FilterBox(DropNa(RawRows(src)), box), DateLabel(v, date))]

\* Fault: no except clause, the exception leaves the function.
OnExceptionPropagates == [raised |-> TRUE, error |-> FALSE, df |-> EmptyFrame]

\* Fault: the failure returns an empty frame with the data columns.
OnExceptionWithColumns ==
    [raised |-> FALSE, error |-> TRUE, df |-> [columns |-> DataColumns, rows |-> <<>>]]

\* except Exception as e: st.error(...); return pd.DataFrame()
OnException == [raised |-> FALSE, error |-> TRUE, df |-> EmptyFrame]

\* One uncached call.  fetch.ok is FALSE when requests.get, raise_for_status,
\* iter_content or rasterio.open raises inside the try block.
GetChirpsData(v, date, fetch, box) ==
    IF fetch.ok
    THEN [raised |-> FALSE, error |-> FALSE,
          df |-> TransformRaster(v, date, fetch.src, box)]
    ELSE OnException

-----------------------------------------------------------------------------
(* Transformer harness: every small raster against every box *)

\* src.bounds of the rasters; top is north of bottom, left west of right.
RasterBounds == [left |-> 100, right |-> 112, top |-> 0, bottom |-> -12]

Shapes == {hw \in (1..MaxCells) \X (1..MaxCells) : hw[1] * hw[2] <= MaxCells}

Bands == UNION {[1..hw[1] -> [1..hw[2] -> CellValues]] : hw \in Shapes}

FetchFailure == [ok |-> FALSE, src |-> [band |-> <<>>, bounds |-> RasterBounds]]

FetchOK(band) == [ok |-> TRUE, src |-> [band |-> band, bounds |-> RasterBounds]]

Box(a, b, c, d) == [lat_min |-> a, lat_max |-> b, lon_min |-> c, lon_max |-> d]

\* Whole grid, northern half with the edge row, southern edge only, outside
\* the grid, inverted; likewise along the longitude.
HarnessBoxes ==
    {Box(la[1], la[2], lo[1], lo[2]) :
        la \in {<<-12, 0>>, <<-6, 0>>, <<-12, -12>>, <<1, 2>>, <<0, -12>>},
        lo \in {<<100, 112>>, <<104, 112>>, <<113, 114>>}}

HarnessDate == <<2000, 12, 31>>

NoResult == [raised |-> FALSE, error |-> FALSE, df |-> EmptyFrame]

-----------------------------------------------------------------------------
(* The calendar of the batch loop *)

\* The months and days a range is picked from, ascending, across a year end.
Calendar(v) ==
    IF v = "monthly"
    THEN << <<2000, 11, 1>>, <<2000, 12, 1>>, <<2001, 1, 1>> >>
    ELSE << <<2000, 12, 30>>, <<2000, 12, 31>>, <<2001, 1, 1>> >>

DatePool(v) == {Calendar(v)[i] : i \in 1..Len(Calendar(v))}

\* The place of a date in the calendar, and the dates from s to e, both included.
CalendarIndex(v, d) == CHOOSE i \in 1..Len(Calendar(v)) : Calendar(v)[i] = d

CalendarRange(v, s, e) == SubSeq(Calendar(v), CalendarIndex(v, s), CalendarIndex(v, e))

RangeLength(v, s, e) == Len(CalendarRange(v, s, e))

IsLeap(y) == (y % 4 = 0 /\ y % 100 # 0) \/ y % 400 = 0

DaysInMonth(y, m) ==
    IF m = 2 THEN (IF IsLeap(y) THEN 29 ELSE 28)
    ELSE IF m \in {4, 6, 9, 11} THEN 30 ELSE 31

\* current_date += timedelta(days=1)
NextDay(d) ==
    IF d[3] < DaysInMonth(d[1], d[2]) THEN <<d[1], d[2], d[3] + 1>>
    ELSE IF d[2] < 12 THEN <<d[1], d[2] + 1, 1>>
    ELSE <<d[1] + 1, 1, 1>>

\* Fault: December is followed by month 13 of the same year.
NextMonthNoRollover(d) == <<d[1], d[2] + 1, 1>>

\* if current_date.month == 12: datetime(year + 1, 1, 1)
\* else: datetime(year, month + 1, 1)
NextMonth(d) == IF d[2] = 12 THEN <<d[1] + 1, 1, 1>> ELSE <<d[1], d[2] + 1, 1>>

NextDate(v, d) == IF v = "monthly" THEN NextMonth(d) ELSE NextDay(d)

-----------------------------------------------------------------------------
(* @st.cache_data(ttl=3600) *)

\* ttl, in seconds
TTL == 3600

\* Fault: the box is left out of the key.
CacheKeyDateOnly(date, box) == <<date>>

\* The arguments the cached function is keyed by.
CacheKey(date, box) == <<date, box>>

\* Fault: entries never expire.
FreshAlways(e, t) == TRUE

\* An entry is served while the clock is before its expiry.
Fresh(e, t) == t < e.expires

CacheHits(c, key, t) == {e \in c : e.key = key /\ Fresh(e, t)}

\* Fault: the table returned after a caught exception is not stored.
CachePutSkipsFailures(c, key, res, t) ==
    IF res.error
    THEN c
    ELSE {e \in c : Fresh(e, t) /\ e.key # key}
            \cup {[key |-> key, res |-> res, expires |-> t + TTL]}

\* Storing drops the expired entries and any entry of the same key.
CachePut(c, key, res, t) ==
    {e \in c : Fresh(e, t) /\ e.key # key}
        \cup {[key |-> key, res |-> res, expires |-> t + TTL]}

-----------------------------------------------------------------------------
(* Session state and the handlers *)

HasFlags(v) == v # "era5"

\* Fault: a new item is put in front.
DictSetFront(d, k, df) == <<[key |-> k, df |-> df]>> \o d

\* d[k] = df on a dict kept as a sequence of items in insertion order.
DictSet(d, k, df) ==
    IF \E i \in 1..Len(d) : d[i].key = k
    THEN [i \in 1..Len(d) |-> IF d[i].key = k THEN [key |-> k, df |-> df] ELSE d[i]]
    ELSE Append(d, [key |-> k, df |-> df])

DictKeys(d) == {d[i].key : i \in 1..Len(d)}

\* String comparison: lexicographic by character code.
RECURSIVE StrLT(_, _)
StrLT(a, b) ==
    IF Len(b) = 0 THEN FALSE
    ELSE IF Len(a) = 0 THEN TRUE
    ELSE IF Head(a) # Head(b) THEN Head(a) < Head(b)
    ELSE StrLT(Tail(a), Tail(b))

\* sorted(keys)[0] and sorted(keys)[-1]
SortedFirst(keys) == CHOOSE k \in keys : \A o \in keys : o = k \/ StrLT(k, o)
SortedLast(keys) == CHOOSE k \in keys : \A o \in keys : o = k \/ StrLT(o, k)

\* sorted(keys)[i], i counted from 0.
SortedAt(keys, i) == CHOOSE k \in keys : Cardinality({o \in keys : StrLT(o, k)}) = i

\* pd.concat(list(chirps_data.values()), ignore_index=True)
RECURSIVE ConcatRows(_)
ConcatRows(d) == IF Len(d) = 0 THEN <<>> ELSE Head(d).df.rows \o ConcatRows(Tail(d))

\* The raster the archive serves for a date of the batch model: rain in the
\* north-west cell, none in the south-east cell, no data in the other two.
UpstreamBands ==
    { << <<Num(5), Num(SentinelValue)>>, <<Num(SentinelValue), Num(0)>> >> }

\* Whole grid; the south-west cell only, which holds no data.
UserBoxes == {Box(-12, 0, 100, 112), Box(-12, -12, 100, 100)}

FetchOutcomes == {FetchFailure} \cup {FetchOK(b) : b \in UpstreamBands}

NoDownload == [kind |-> "none", files |-> <<>>, rows |-> <<>>, first |-> <<>>, last |-> <<>>]

NoMap == [kind |-> "none", date |-> <<>>]

NoRequest == [start |-> <<0, 0, 0>>, end |-> <<0, 0, 0>>, status |-> "none"]

HarnessIdle ==
    /\ tFetch = FetchFailure
    /\ tDate = HarnessDate
    /\ tBox = Box(0, 0, 0, 0)
    /\ tRaw = <<>>
    /\ tOut = NoResult
    /\ tpc = "off"

\* The session state a page starts with (lines 19-25), nothing cached.
PageStart ==
    /\ variant \in Variants
    /\ chirps_data = <<>>
    /\ data_processed = FALSE
    /\ show_map = FALSE
    /\ cache = {}
    /\ now = 0
    /\ pc = "idle"
    /\ start_date = <<0, 0, 0>>
    /\ end_date = <<0, 0, 0>>
    /\ lat_lon = Box(0, 0, 0, 0)
    /\ current_date = <<0, 0, 0>>
    /\ msg = "none"
    /\ download = NoDownload
    /\ map_view = NoMap
    /\ callLog = <<>>
    /\ lastReq = NoRequest
    /\ reqCalls = 0
    /\ computed = {}
    /\ requests = 0

Init == PageStart /\ HarnessIdle

\* Fault: the range is not validated.
RangeInvalidNever(s, e) == FALSE

\* if start > end: st.error(...)
RangeInvalid(s, e) == DateLT(e, s)

\* Seconds between two script runs of "Proses Data": up to the last second
\* before an entry stored by the previous run expires, or past its expiry.
\* While nothing is cached the clock is compared with nothing, and it is
\* left where it is.
Elapsed(c) == IF c = {} THEN {0} ELSE {TTL - 1, TTL + 1}

\* Fault: an accepted request keeps the mapping of the previous one.
ResultsKept == chirps_data

\* st.session_state.chirps_data = {}
ResultsReset == <<>>

\* Fault: an accepted request leaves the two flags as they are.
FlagsKept == <<data_processed, show_map>>

\* st.session_state.data_processed = False; st.session_state.show_map = False
FlagsReset == <<FALSE, FALSE>>

\* What st.slider(label, 0, n - 1, 0) can hand back: a position the user
\* chose between its ends.  With n = 1 its two ends coincide, which the
\* monthly and IMERG pages avoid by "if len(dates) > 1"; the ERA5 page calls
\* it all the same, and the widget then returns 0 or raises, depending on
\* the Streamlit release.
SliderValues(n) == 0..(n - 1)

\* The end of a script run that finds the session state d, processed, shown:
\* the map section.  Monthly and IMERG draw it once data_processed and
\* show_map, for the label at the slider position, or warn that there is
\* nothing to draw; ERA5 draws it whenever chirps_data holds something.
MapOutcomes(v, d, processed, shown) ==
    LET dates == DictKeys(d)
        n == Cardinality(dates)
        drawn == {[kind |-> "map", date |-> SortedAt(dates, i)] : i \in SliderValues(n)}
    IN  IF HasFlags(v)
        THEN IF processed /\ shown
             THEN IF n > 0
                  THEN IF n > 1
                       THEN drawn
                       ELSE {[kind |-> "map", date |-> SortedAt(dates, 0)]}
                  ELSE {[kind |-> "no_data", date |-> <<>>]}
             ELSE {NoMap}
        ELSE IF Len(d) > 0
             THEN IF n > 1
                  THEN drawn
                  ELSE drawn \cup {[kind |-> "slider_error", date |-> <<>>]}
             ELSE {NoMap}

\* Fault: the reset of the session state runs before the validation.
OnRejectedResets(s) == << <<>>, FALSE, FALSE >>

\* The branch taken for start > end holds st.error(...) and nothing else:
\* the session state s = <<chirps_data, data_processed, show_map>> stays.
OnRejected(s) == s

\* Click on "Proses Data" with the range s..e and the box b: the validation,
\* and for a valid range the reset before the loop.
ProcessClick(s, e, b) ==
    /\ pc = "idle"
    /\ \E d \in Elapsed(cache) : now' = now + d
    /\ requests < MaxRequests
    /\ requests' = requests + 1
    /\ reqCalls' = 0
    /\ download' = NoDownload
    /\ IF RangeInvalid(s, e)
       THEN /\ msg' = "range_error"
            /\ lastReq' = [start |-> s, end |-> e, status |-> "rejected"]
            /\ chirps_data' = OnRejected(session)[1]
            /\ data_processed' = OnRejected(session)[2]
            /\ show_map' = OnRejected(session)[3]
            /\ map_view' \in MapOutcomes(variant, chirps_data', data_processed', show_map')
            /\ UNCHANGED <<loopvars, callLog>>
       ELSE /\ msg' = "none"
            /\ lastReq' = [start |-> s, end |-> e, status |-> "accepted"]
            /\ chirps_data' = ResultsReset
            /\ data_processed' = FlagsReset[1]
            /\ show_map' = FlagsReset[2]
            /\ map_view' = NoMap
            /\ start_date' = s
            /\ end_date' = e
            /\ lat_lon' = b
            /\ current_date' = s
            /\ pc' = "loop"
            /\ callLog' = <<>>
    /\ UNCHANGED <<variant, cache, computed, tvars>>

Process == \E s \in DatePool(variant), e \in DatePool(variant), b \in UserBoxes : ProcessClick(s, e, b)

\* The rest of one loop iteration once the (possibly cached) call returned
\* res: store a non-empty table under the date label, advance the date.  An
\* exception leaving the call would end the script run there.
Iterate(res, ok, hit, newCache, newComputed) ==
    /\ cache' = newCache
    /\ computed' = newComputed
    /\ reqCalls' = reqCalls + 1
    /\ callLog' = Append(callLog,
           [date |-> current_date, box |-> lat_lon, t |-> now, hit |-> hit,
            ok |-> ok, res |-> res])
    /\ IF res.raised
       THEN /\ pc' = "idle"
            /\ msg' = "exception"
            /\ UNCHANGED <<chirps_data, current_date>>
       ELSE /\ pc' = "loop"
            /\ msg' = msg
            /\ chirps_data' =
                  IF ~IsEmpty(res.df)
                  THEN DictSet(chirps_data, DateLabel(variant, current_date), res.df)
                  ELSE chirps_data
            /\ current_date' = NextDate(variant, current_date)
    /\ UNCHANGED <<variant, data_processed, show_map, now, start_date, end_date,
                   lat_lon, download, map_view, lastReq, requests, tvars>>

\* One iteration of "while current_date <= end_date".
LoopStep ==
    /\ pc = "loop"
    /\ DateLE(current_date, end_date)
    /\ LET key == CacheKey(current_date, lat_lon)
           hits == CacheHits(cache, key, now)
           call == <<current_date, lat_lon>>
       IN  IF hits # {}
           THEN \E e \in hits :
                  Iterate(e.res, \E c \in computed : c.key = call /\ c.ok,
                          TRUE, cache, computed)
           ELSE \E fetch \in FetchOutcomes :
                  LET res == GetChirpsData(variant, current_date, fetch, lat_lon)
                  IN  Iterate(res, fetch.ok, FALSE,
                              IF res.raised THEN cache ELSE CachePut(cache, key, res, now),
                              {c \in computed : c.key # call}
                                 \cup {[key |-> call, t |-> now, ok |-> fetch.ok, res |-> res]})

\* Fault: the batch is reported as a success whatever it holds.
BatchHasDataAlways(d) == TRUE

\* if st.session_state.chirps_data:
BatchHasData(d) == Len(d) > 0

\* The loop ends and the batch is reported: st.success or st.warning.
Finish ==
    /\ pc = "loop"
    /\ ~DateLE(current_date, end_date)
    /\ pc' = "idle"
    /\ IF BatchHasData(chirps_data)
       THEN /\ data_processed' = (IF HasFlags(variant) THEN TRUE ELSE data_processed)
            /\ msg' = "success"
       ELSE /\ data_processed' = data_processed
            /\ msg' = "warning"
    /\ map_view' \in MapOutcomes(variant, chirps_data, data_processed', show_map)
    /\ UNCHANGED <<variant, chirps_data, show_map, cache, now, start_date, end_date,
                   lat_lon, current_date, download, history, tvars>>

\* Click on "Tampilkan Peta" (monthly, imerg): only drawn once data_processed.
ShowMap ==
    /\ pc = "idle"
    /\ HasFlags(variant)
    /\ data_processed
    /\ show_map' = TRUE
    /\ msg' = "none"
    /\ download' = NoDownload
    /\ map_view' \in MapOutcomes(variant, chirps_data, data_processed, TRUE)
    /\ UNCHANGED <<variant, chirps_data, data_processed, cache, now, loopvars,
                   history, tvars>>

\* Click on the download button: a ZIP of one file per date (monthly, imerg,
\* drawn once data_processed) or one combined sheet (era5, refused while
\* chirps_data is empty).  The ERA5 page draws its map above the handler, so
\* that a slider that raises ends the run before it.
Download ==
    /\ pc = "idle"
    /\ map_view' \in MapOutcomes(variant, chirps_data, data_processed, show_map)
    /\ IF HasFlags(variant)
       THEN /\ data_processed
            /\ msg' = "download_ready"
            /\ download' =
                  [kind |-> "zip",
                   files |-> [i \in 1..Len(chirps_data) |-> chirps_data[i].key],
                   rows |-> <<>>,
                   first |-> SortedFirst(DictKeys(chirps_data)),
                   last |-> SortedLast(DictKeys(chirps_data))]
       ELSE IF map_view'.kind = "slider_error"
            THEN /\ msg' = "none"
                 /\ download' = NoDownload
            ELSE IF Len(chirps_data) = 0
                 THEN /\ msg' = "download_refused"
                      /\ download' = NoDownload
                 ELSE /\ msg' = "download_ready"
                      /\ download' =
                            [kind |-> "xlsx",
                             files |-> <<>>,
                             rows |-> ConcatRows(chirps_data),
                             first |-> SortedFirst(DictKeys(chirps_data)),
                             last |-> SortedLast(DictKeys(chirps_data))]
    /\ UNCHANGED <<variant, session, cache, now, loopvars, history, tvars>>

Next == Process \/ LoopStep \/ Finish \/ ShowMap \/ Download

Spec == Init /\ [][Next]_vars

-----------------------------------------------------------------------------
(* The harness run *)

InitT ==
    /\ PageStart
    /\ tFetch \in {FetchFailure} \cup {FetchOK(b) : b \in Bands}
    /\ tDate = HarnessDate
    /\ tBox \in HarnessBoxes
    /\ tRaw = <<>>
    /\ tOut = NoResult
    /\ tpc = "ready"

\* One call of the transformer on the harness inputs.
Transform ==
    /\ tpc = "ready"
    /\ tRaw' = IF tFetch.ok THEN RawRows(tFetch.src) ELSE <<>>
    /\ tOut' = GetChirpsData(variant, tDate, tFetch, tBox)
    /\ tpc' = "done"
    /\ UNCHANGED <<variant, session, cache, now, loopvars, msg, download, map_view,
                   history, tFetch, tDate, tBox>>

NextT == Transform

SpecT == InitT /\ [][NextT]_vars

-----------------------------------------------------------------------------
(* Properties of the transformer, checked under SpecT *)

Done == tpc = "done" /\ tFetch.ok

TBand == tFetch.src.band

\* Cells of the source raster, as <<row, col>>.
TCells == {rc \in (1..Height(TBand)) \X (1..Width(TBand)) : TRUE}

\* A cell that holds an observation: neither the sentinel nor NaN.
Observed(cell) == ~cell.nan /\ cell.v # SentinelValue

\* The index of cell <<row, col>> in the row-major frame.
FlatIndex(rc) == (rc[1] - 1) * Width(TBand) + rc[2]

\* C1: no row of the returned table has Value equal to the sentinel -9999.0
\* or missing (NaN), whatever the raster and the box; a raster whose cells
\* are all the sentinel gives an empty table.
C1_NoSentinelRows ==
    tpc = "done" =>
        /\ \A k \in 1..Len(tOut.df.rows) : Observed(tOut.df.rows[k].Value)
        /\ (tFetch.ok /\ \A rc \in TCells : TBand[rc[1]][rc[2]] = Num(SentinelValue))
               => tOut.df.rows = <<>>

\* A raster with a sentinel cell and an observed cell, of which a row is emitted.
C1_Witness ==
    /\ Done
    /\ \E rc \in TCells : TBand[rc[1]][rc[2]] = Num(SentinelValue)
    /\ Len(tOut.df.rows) > 0

\* Latitude and longitude of cell rc by the frame built before dropna.
CellLat(rc) == tRaw[FlatIndex(rc)].Latitude
CellLon(rc) == tRaw[FlatIndex(rc)].Longitude

\* The cells the box keeps: observed, and inside the box with both edges.
KeptCells ==
    {rc \in TCells :
        /\ Observed(TBand[rc[1]][rc[2]])
        /\ tBox.lat_min <= CellLat(rc) /\ CellLat(rc) <= tBox.lat_max
        /\ tBox.lon_min <= CellLon(rc) /\ CellLon(rc) <= tBox.lon_max}

RowOfCell(rc) ==
    [Latitude |-> CellLat(rc), Longitude |-> CellLon(rc),
     Value |-> TBand[rc[1]][rc[2]], Date_Range |-> DateLabel(variant, tDate)]

OutRows == {tOut.df.rows[k] : k \in 1..Len(tOut.df.rows)}

\* C2: for a box with lat_min <= lat_max and lon_min <= lon_max the returned
\* table holds exactly the observed cells with lat_min <= latitude <= lat_max
\* and lon_min <= longitude <= lon_max, each once: none outside the box, and
\* a cell on a box edge is kept.
C2_ExactlyCellsInBox ==
    (Done /\ tBox.lat_min <= tBox.lat_max /\ tBox.lon_min <= tBox.lon_max) =>
        /\ OutRows = {RowOfCell(rc) : rc \in KeptCells}
        /\ Len(tOut.df.rows) = Cardinality(KeptCells)

\* A row is emitted whose latitude lies on the southern or northern box edge
\* while another observed cell is filtered out.
C2_Witness ==
    /\ Done
    /\ tBox.lat_min <= tBox.lat_max /\ tBox.lon_min <= tBox.lon_max
    /\ \E row \in OutRows : row.Latitude = tBox.lat_min \/ row.Longitude = tBox.lon_min
    /\ \E rc \in TCells : Observed(TBand[rc[1]][rc[2]]) /\ rc \notin KeptCells

\* x is the sample of index i (from 1) of n samples interpolated linearly
\* from a to b, both ends included.
Interpolates(x, a, b, i, n) == (n - 1) * (x - a) = (i - 1) * (b - a)

\* Every cell of the frame carries the interpolated coordinates of its row and
\* column and its own (masked) value, and every returned row is such a cell.
CellsOnGrid ==
    LET h == Height(TBand)
        w == Width(TBand)
        b == tFetch.src.bounds
    IN  /\ Len(tRaw) = h * w
        /\ \A rc \in TCells :
              /\ Interpolates(CellLat(rc), b.top, b.bottom, rc[1], h)
              /\ Interpolates(CellLon(rc), b.left, b.right, rc[2], w)
              /\ rc[1] = 1 => CellLat(rc) = b.top
              /\ rc[2] = 1 => CellLon(rc) = b.left
              /\ tRaw[FlatIndex(rc)].Value =
                    (IF TBand[rc[1]][rc[2]] = Num(SentinelValue)
                     THEN NaNCell ELSE TBand[rc[1]][rc[2]])
        /\ OutRows \subseteq {RowOfCell(rc) : rc \in TCells}

\* C3 as stated: for every grid with height >= 1 and width >= 1, row 0 maps to
\* bounds.top and the last row to bounds.bottom, column 0 to bounds.left and
\* the last column to bounds.right, linearly in between.
C3_AsStated ==
    Done =>
        /\ CellsOnGrid
        /\ \A rc \in TCells :
              /\ rc[1] = Height(TBand) => CellLat(rc) = tFetch.src.bounds.bottom
              /\ rc[2] = Width(TBand) => CellLon(rc) = tFetch.src.bounds.right

\* C3, amended: cell (row, col) is emitted with (latitude[row], longitude[col]),
\* interpolated linearly; row 0 maps to bounds.top and column 0 to bounds.left;
\* the last row maps to bounds.bottom when height >= 2 and the last column to
\* bounds.right when width >= 2; the only row of a one-row grid maps to
\* bounds.top and the only column of a one-column grid to bounds.left.
C3_GridCoordinates ==
    Done =>
        /\ CellsOnGrid
        /\ \A rc \in TCells :
              /\ (rc[1] = Height(TBand) /\ Height(TBand) >= 2)
                    => CellLat(rc) = tFetch.src.bounds.bottom
              /\ (rc[2] = Width(TBand) /\ Width(TBand) >= 2)
                    => CellLon(rc) = tFetch.src.bounds.right
              /\ Height(TBand) = 1 => CellLat(rc) = tFetch.src.bounds.top
              /\ Width(TBand) = 1 => CellLon(rc) = tFetch.src.bounds.left

\* A grid of two rows and two columns of which the south-east cell is emitted.
C3_Witness ==
    /\ Done
    /\ Height(TBand) = 2 /\ Width(TBand) = 2
    /\ \E row \in OutRows :
          /\ row.Latitude = tFetch.src.bounds.bottom
          /\ row.Longitude = tFetch.src.bounds.right

-----------------------------------------------------------------------------
(* Properties of the batch loop and the cache, checked under Spec *)

LogIndex == 1..Len(callLog)

\* A batch has been accepted and its script run is over.
BatchOver == pc = "idle" /\ Len(callLog) > 0

\* The item chirps_data holds for a date, if any.
Stored(date) ==
    {chirps_data[i].df : i \in {j \in 1..Len(chirps_data) :
                                  chirps_data[j].key = DateLabel(variant, date)}}

\* C4: a raster fetched and decoded of which no cell survives gives an empty
\* table (with the four data columns) and no error message, and the loop can
\* tell it from a failed date, whose call shows st.error and returns a frame
\* without columns.
C4_EmptyIsNotFailure ==
    \A i \in LogIndex :
        LET e == callLog[i]
        IN  /\ (e.ok /\ e.res.df.rows = <<>>) =>
                  /\ ~e.res.raised /\ ~e.res.error
                  /\ e.res.df.columns = DataColumns
            /\ ~e.ok => (e.res.error /\ e.res.df.columns # DataColumns)
            /\ \A j \in LogIndex :
                  (e.ok /\ ~callLog[j].ok) => e.res # callLog[j].res

\* One batch with a decoded date of which nothing survives and a failed date.
C4_Witness ==
    /\ BatchOver
    /\ \E i \in LogIndex : callLog[i].ok /\ callLog[i].res.df.rows = <<>> /\ ~callLog[i].hit
    /\ \E j \in LogIndex : ~callLog[j].ok

\* C5: a failure of one date never aborts the batch: no exception reaches the
\* loop, and once the batch is over every later date of the range has been
\* passed to the transformer and is stored if its table is not empty.
C5_FailureDoesNotAbort ==
    /\ msg # "exception"
    /\ \A i \in LogIndex : ~callLog[i].res.raised
    /\ BatchOver =>
          \A i \in LogIndex :
             ~callLog[i].ok =>
                \A d \in DatePool(variant) :
                   (DateLT(callLog[i].date, d) /\ DateLE(d, end_date)) =>
                      \E j \in LogIndex :
                         /\ callLog[j].date = d
                         /\ ~IsEmpty(callLog[j].res.df) => Stored(d) = {callLog[j].res.df}

\* A finished batch whose first date failed and whose last date is stored.
C5_Witness ==
    /\ BatchOver
    /\ Len(callLog) = 3
    /\ ~callLog[1].ok /\ ~callLog[1].hit
    /\ Stored(callLog[3].date) # {}

LogDates == [i \in LogIndex |-> callLog[i].date]

\* C6: the loop calls the transformer once for each day (month) from start to
\* end, both included, in ascending order, across the year end too, and then
\* stops: while it runs the calls made are the first dates of the range and
\* current_date is the next one; after the last date of the range the loop
\* condition is false; once the batch is over the calls are the whole range.
C6_EachDateOnce ==
    LET range == CalendarRange(variant, start_date, end_date)
    IN  /\ pc = "loop" =>
              /\ Len(callLog) <= Len(range)
              /\ LogDates = SubSeq(range, 1, Len(callLog))
              /\ Len(callLog) < Len(range) => current_date = range[Len(callLog) + 1]
              /\ Len(callLog) = Len(range) => ~DateLE(current_date, end_date)
        /\ BatchOver => LogDates = range

\* A finished batch of three dates from one year into the next.
C6_Witness ==
    /\ BatchOver
    /\ Len(callLog) = 3
    /\ callLog[1].date[1] < callLog[3].date[1]

\* C7: a request whose start is after its end is rejected by the check made
\* before the loop, and the transformer is called for no date.
C7_InvalidRangeRejected ==
    lastReq.status # "none" =>
        /\ DateLT(lastReq.end, lastReq.start) <=> lastReq.status = "rejected"
        /\ lastReq.status = "rejected" => (reqCalls = 0 /\ pc = "idle")

\* A rejected request made after an accepted one.
C7_Witness ==
    /\ lastReq.status = "rejected"
    /\ Len(callLog) > 0
    /\ msg = "range_error"

\* The rows a date contributed to the latest batch.
RowsOf(date) ==
    IF \E i \in LogIndex : callLog[i].date = date
    THEN (CHOOSE e \in {callLog[i] : i \in LogIndex} : e.date = date).res.df.rows
    ELSE <<>>

RECURSIVE RowsInDateOrder(_)
RowsInDateOrder(dates) ==
    IF Len(dates) = 0 THEN <<>> ELSE RowsOf(Head(dates)) \o RowsInDateOrder(Tail(dates))

\* C8: the combined table built for the bulk export holds the points of the
\* dates that succeeded and no others, date after date in ascending order,
\* whichever dates failed.
C8_CombinedInDateOrder ==
    download.kind = "xlsx" =>
        /\ download.rows = RowsInDateOrder(Calendar(variant))
        /\ \A k \in 1..Len(download.rows) :
              \E i \in LogIndex :
                 /\ callLog[i].ok
                 /\ download.rows[k].Date_Range = DateLabel(variant, callLog[i].date)
        /\ \A k \in 1..(Len(download.rows) - 1) :
              ~StrLT(download.rows[k + 1].Date_Range, download.rows[k].Date_Range)

\* A combined table of the first and the third date, the second having failed.
C8_Witness ==
    /\ download.kind = "xlsx"
    /\ Len(callLog) = 3
    /\ ~callLog[2].ok
    /\ \E k \in 1..Len(download.rows) :
          download.rows[k].Date_Range = DateLabel(variant, callLog[1].date)
    /\ \E k \in 1..Len(download.rows) :
          download.rows[k].Date_Range = DateLabel(variant, callLog[3].date)

SomeDateHasData == \E i \in LogIndex : ~IsEmpty(callLog[i].res.df)

\* C9: when an accepted batch is over, "no data" is shown if and only if no
\* date gave a non-empty table; otherwise the batch is reported as a success,
\* with data_processed = True on the pages that have the flag; neither
\* outcome is an exception.
C9_NoDataIffAllEmpty ==
    /\ msg # "exception"
    /\ msg = "warning" =>
          (BatchOver /\ ~SomeDateHasData /\ Len(chirps_data) = 0 /\ ~data_processed)
    /\ msg = "success" =>
          (BatchOver /\ SomeDateHasData /\ (HasFlags(variant) => data_processed))
    /\ (HasFlags(variant) /\ data_processed) => SomeDateHasData

\* A batch reported as a success although one of its dates failed.
C9_Witness ==
    /\ msg = "success"
    /\ \E i \in LogIndex : ~callLog[i].ok
    /\ HasFlags(variant)

\* C10: the memoised transformer returns a stored table only if a call with
\* the same date and the same four box values was computed at most 3600
\* seconds earlier, and what it returns is what that call computed.
C10_CacheServesFreshSameKey ==
    \A i \in LogIndex :
        callLog[i].hit =>
            \E c \in computed :
                /\ c.key = <<callLog[i].date, callLog[i].box>>
                /\ c.res = callLog[i].res
                /\ c.t <= callLog[i].t
                /\ callLog[i].t - c.t <= TTL

\* A table served from the cache 3599 seconds after it was computed, and, in
\* the same batch, a date computed anew.
C10_Witness ==
    /\ \E i \in LogIndex : callLog[i].hit /\ callLog[i].t = TTL - 1
                             /\ ~IsEmpty(callLog[i].res.df)
    /\ \E j \in LogIndex : ~callLog[j].hit

\* C11: a click on "Proses Data" that is rejected because start > end leaves
\* the session state as it was: chirps_data keeps every table of the previous
\* accepted request, data_processed and show_map keep their values.
C11_RejectedKeepsSession ==
    [][(requests' = requests + 1 /\ lastReq'.status = "rejected")
          => /\ DateLT(lastReq'.end, lastReq'.start)
             /\ chirps_data' = chirps_data
             /\ data_processed' = data_processed
             /\ show_map' = show_map]_vars

\* A range was rejected while the session held tables and a shown map.
C11_Witness ==
    /\ lastReq.status = "rejected"
    /\ msg = "range_error"
    /\ Len(chirps_data) > 0
    /\ data_processed
    /\ show_map

\* The dates of the range of the latest accepted request.
RangeDates ==
    {CalendarRange(variant, start_date, end_date)[i] :
        i \in 1..RangeLength(variant, start_date, end_date)}

\* The call of the latest accepted request for a date returned rows.
ReturnedNonEmpty(date) ==
    \E i \in LogIndex : callLog[i].date = date /\ ~IsEmpty(callLog[i].res.df)

\* C12: once an accepted request has completed, whatever came before it,
\* chirps_data holds exactly the labels of the dates of that request's range
\* whose call returned a non-empty table: no label of an earlier request and
\* no label outside [start, end]; each label once; every stored table is
\* non-empty and each of its rows carries its label as Date_Range.
C12_ExactlyLatestRange ==
    BatchOver =>
        /\ DictKeys(chirps_data) =
              {DateLabel(variant, d) : d \in {x \in RangeDates : ReturnedNonEmpty(x)}}
        /\ \A i, j \in 1..Len(chirps_data) :
              chirps_data[i].key = chirps_data[j].key => i = j
        /\ \A i \in 1..Len(chirps_data) :
              /\ ~IsEmpty(chirps_data[i].df)
              /\ \A k \in 1..Len(chirps_data[i].df.rows) :
                    chirps_data[i].df.rows[k].Date_Range = chirps_data[i].key

\* A second accepted request has completed with a table stored, and a date
\* that gave a table in the first request is not among its labels.
C12_Witness ==
    /\ BatchOver
    /\ requests = 2
    /\ lastReq.status = "accepted"
    /\ Len(chirps_data) > 0
    /\ \E c \in computed :
          /\ ~IsEmpty(c.res.df)
          /\ c.key[1] \notin RangeDates
          /\ DateLabel(variant, c.key[1]) \notin DictKeys(chirps_data)

\* C13: whatever the user clicks, in whatever order, the map and the export
\* come out of a non-empty chirps_data only: where the flags exist show_map
\* implies data_processed, which implies that chirps_data is non-empty; the
\* label the map is drawn for is a key of chirps_data; and the first and
\* last label of a download file name are keys of chirps_data, so that
\* sorted(...)[0] and sorted(...)[-1] are never taken from an empty mapping.
C13_OutputsNeedData ==
    /\ HasFlags(variant) =>
          /\ show_map => data_processed
          /\ data_processed => Len(chirps_data) > 0
    /\ ~HasFlags(variant) => (~data_processed /\ ~show_map)
    /\ map_view.kind = "map" =>
          /\ Len(chirps_data) > 0
          /\ map_view.date \in DictKeys(chirps_data)
          /\ HasFlags(variant) => (data_processed /\ show_map)
    /\ download.kind # "none" =>
          /\ Len(chirps_data) > 0
          /\ download.first \in DictKeys(chirps_data)
          /\ download.last \in DictKeys(chirps_data)
          /\ HasFlags(variant) => data_processed

\* After a rejected range, a download was built from several labels while
\* the map was drawn for a label other than the first.
C13_Witness ==
    /\ lastReq.status = "rejected"
    /\ download.kind # "none"
    /\ download.first # download.last
    /\ map_view.kind = "map"
    /\ map_view.date # download.first

\* The latest computation for the call the loop is about to make, if it was
\* a fetch that failed.
FailedBefore ==
    {c \in computed : c.key = <<current_date, lat_lon>> /\ ~c.ok}

\* C14: the empty table returned after a caught fetch or decode exception is
\* memoised like any other result.  A call for a date and box whose latest
\* fetch failed less than 3600 s ago performs no fetch: it is served the
\* stored empty table, and the date gets no entry in chirps_data.  Once the
\* 3600 s are over the call fetches again.
C14_FailureIsMemoised ==
    [][\A c \in FailedBefore :
          (pc = "loop" /\ DateLE(current_date, end_date)) =>
             LET call == callLog'[Len(callLog')]
             IN  /\ Len(callLog') = Len(callLog) + 1
                 /\ call.date = current_date /\ call.box = lat_lon
                 /\ IF now - c.t < TTL
                    THEN /\ call.hit
                         /\ call.res = c.res
                         /\ IsEmpty(call.res.df)
                         /\ computed' = computed
                         /\ cache' = cache
                         /\ DateLabel(variant, current_date) \notin DictKeys(chirps_data')
                    ELSE ~call.hit]_vars

\* A second accepted request, 3599 s after the first, was served the empty
\* table of a failed fetch from the cache, and the date is not in the
\* results, while another date of the same request is.
C14_Witness ==
    /\ BatchOver
    /\ requests = 2
    /\ lastReq.status = "accepted"
    /\ Len(chirps_data) > 0
    /\ \E i \in LogIndex :
          /\ callLog[i].hit
          /\ ~callLog[i].ok
          /\ callLog[i].res.error
          /\ callLog[i].t = TTL - 1
          /\ Stored(callLog[i].date) = {}
====
